---- MODULE Spec2Model ----
(***************************************************************************)
(* Model of src/main.py: the MicroPython bring-up script of MainClockHub.  *)
(* The script is a straight line of module-level statements.  Each         *)
(* statement is modelled as one action that evaluates the statement in     *)
(* Python's order (callee first, then the arguments left to right, then    *)
(* the call), looking names up in the module globals and calling the       *)
(* peripheral drivers.  The drivers are the environment: every call may    *)
(* succeed or raise, and constructors return an object of the driver's     *)
(* choosing.  The `calls' variable is the trace a mock driver would see.   *)
(***************************************************************************)
EXTENDS Integers, Sequences, FiniteSets, TLC

(* ---- bounds ---- *)
MaxHandle == 2
Handles == 1..MaxHandle
Levels == {0, 1}

(* ---- literals of the script ---- *)
WIDTH == 128
HEIGHT == 64
I2C_ID == 0
SCL_PIN == 1
SDA_PIN == 0
I2C_FREQ == 40000
FILL_COLOUR == 0
TEXT == "testhjgjhfgjgfhg"
TEXT_X == 0
TEXT_Y == 0
SPI_ID == 1
CS_PIN == 15
CE_PIN == 16
CHANNEL == 7
PAYLOAD_SIZE == 32

VARIABLES pc, globals, calls, error, fb, panel

vars == <<pc, globals, calls, error, fb, panel>>

(* ---- values held by module globals ---- *)
Names == {"Pin", "I2C", "SPI", "SSD1306_I2C", "NRF24L01", "utime", "DS1307",
          "WIDTH", "HEIGHT", "i2c", "oled", "radio", "nrf24l01"}

Unbound == [k |-> "unbound", v |-> 0]
Imported == [k |-> "imported", v |-> 0]
IntVal(n) == [k |-> "int", v |-> n]
Obj(h) == [k |-> "obj", v |-> h]

(* ---- frame buffer and panel content ---- *)
NoFrame == [bg |-> -1, txt |-> "", x |-> 0, y |-> 0]
Blank(c) == [bg |-> c, txt |-> "", x |-> 0, y |-> 0]

(* ---- one driver call as a mock would record it ---- *)
Call(fn, obj, args, txt, ret) ==
  [fn |-> fn, obj |-> obj, args |-> args, txt |-> txt, ret |-> ret, ok |-> TRUE]

NoCall == Call("", 0, <<>>, "", 0)

(* ---- the operations a statement performs, in evaluation order ---- *)
Load(name) == [op |-> "load", name |-> name, call |-> NoCall]
Invoke(c) == [op |-> "call", name |-> "", call |-> c]

PinCall(n) == Invoke(Call("Pin", 0, <<n>>, "", n))

Init ==
  /\ pc = "l1"
  /\ globals = [n \in Names |-> Unbound]
  /\ calls = <<>>
  /\ error = "none"
  /\ fb = NoFrame
  /\ panel \in {Blank(c) : c \in Levels}

(* An exception at module top level is not caught: the run stops. *)
NextPcCaught(failed, nxt) == nxt

NextPc(failed, nxt) == IF failed THEN "aborted" ELSE nxt

(* from X import a, b / import X: binds the names, or raises ImportError. *)
Import(names, nxt) ==
  \E ok \in BOOLEAN :
    /\ globals' = IF ok THEN [n \in Names |-> IF n \in names THEN Imported ELSE globals[n]]
                        ELSE globals
    /\ error' = IF ok THEN "none" ELSE "ImportError"
    /\ pc' = NextPc(~ok, nxt)
    /\ UNCHANGED <<calls, fb, panel>>

ImportMachine == pc = "l1" /\ Import({"Pin", "I2C", "SPI"}, "l2")
ImportSsd1306 == pc = "l2" /\ Import({"SSD1306_I2C"}, "l3")
ImportNrf24 == pc = "l3" /\ Import({"NRF24L01"}, "l4")
ImportUtime == pc = "l4" /\ Import({"utime"}, "l5")
ImportDs1307 == pc = "l5" /\ Import({"DS1307"}, "l18")

(* ---- evaluation of one statement ---- *)
IsCall(o) == o.op = "call"
NumCalls(ops) == Len(SelectSeq(ops, IsCall))

(* Runs the operations in order.  A load of an unbound name raises        *)
(* NameError; the failAt-th call raises the driver's error (0: none       *)
(* does).  Whatever follows the raising operation is not evaluated.       *)
RECURSIVE Run(_, _, _, _)
Run(ops, g, failAt, acc) ==
  IF ops = <<>> THEN [made |-> acc, err |-> "none"]
  ELSE LET o == Head(ops) IN
    IF o.op = "load"
    THEN IF g[o.name].k = "unbound"
         THEN [made |-> acc, err |-> "NameError"]
         ELSE Run(Tail(ops), g, failAt, acc)
    ELSE IF failAt = 1
         THEN [made |-> Append(acc, [o.call EXCEPT !.ok = FALSE]), err |-> "DriverError"]
         ELSE Run(Tail(ops), g, IF failAt = 0 THEN 0 ELSE failAt - 1, Append(acc, o.call))

(* Effect of the calls that returned on the frame buffer and the panel:   *)
(* the display constructor allocates the buffer (content fb0), fill       *)
(* paints it, text stages a string, show copies it to the panel.          *)
RECURSIVE ApplyCalls(_, _, _)
ApplyCalls(made, ds, fb0) ==
  IF made = <<>> THEN ds
  ELSE LET c == Head(made)
           nd == IF ~c.ok THEN ds
                 ELSE IF c.fn = "SSD1306_I2C" THEN [ds EXCEPT !.fb = fb0]
                 ELSE IF c.fn = "fill" THEN [ds EXCEPT !.fb = Blank(c.args[1])]
                 ELSE IF c.fn = "text"
                      THEN [ds EXCEPT !.fb = [bg |-> ds.fb.bg, txt |-> c.txt,
                                               x |-> c.args[1], y |-> c.args[2]]]
                 ELSE IF c.fn = "show" THEN [ds EXCEPT !.panel = ds.fb]
                 ELSE ds
       IN ApplyCalls(Tail(made), nd, fb0)

(* A statement `target = <ops>' (target "" for an expression statement). *)
Stmt(ops, target, nxt, fb0) ==
  \E failAt \in 0..NumCalls(ops) :
    LET r == Run(ops, globals, failAt, <<>>)
        ds == ApplyCalls(r.made, [fb |-> fb, panel |-> panel], fb0)
    IN /\ calls' = calls \o r.made
       /\ error' = r.err
       /\ pc' = NextPc(r.err # "none", nxt)
       /\ globals' = IF r.err = "none" /\ target # ""
                     THEN [globals EXCEPT ![target] = Obj(r.made[Len(r.made)].ret)]
                     ELSE globals
       /\ fb' = ds.fb
       /\ panel' = ds.panel

(* WIDTH = 128 / HEIGHT = 64 *)
Assign(name, n, nxt) ==
  /\ globals' = [globals EXCEPT ![name] = IntVal(n)]
  /\ pc' = nxt
  /\ UNCHANGED <<calls, error, fb, panel>>

AssignWidth == pc = "l18" /\ Assign("WIDTH", WIDTH, "l19")
AssignHeight == pc = "l19" /\ Assign("HEIGHT", HEIGHT, "l21")

(* i2c = I2C(0, scl = Pin(1), sda = Pin(0), freq = 40000) *)
(* I2C args are recorded as <<id, scl, sda, freq>>. *)
OpsL21Fast(h) ==
  << Load("I2C"), Load("Pin"), PinCall(SCL_PIN), Load("Pin"), PinCall(SDA_PIN),
     Invoke(Call("I2C", 0, <<I2C_ID, SCL_PIN, SDA_PIN, 400000>>, "", h)) >>

OpsL21(h) ==
  << Load("I2C"), Load("Pin"), PinCall(SCL_PIN), Load("Pin"), PinCall(SDA_PIN),
     Invoke(Call("I2C", 0, <<I2C_ID, SCL_PIN, SDA_PIN, I2C_FREQ>>, "", h)) >>

MakeI2C == pc = "l21" /\ \E h \in Handles : Stmt(OpsL21(h), "i2c", "l23", NoFrame)

(* oled = SSD1306_I2C(WIDTH, HEIGHT, i2c) *)
(* Display args are recorded as <<width, height, bus handle>>. *)
OpsL23OtherBus(g, h) ==
  << Load("SSD1306_I2C"), Load("WIDTH"), Load("HEIGHT"), Load("i2c"),
     Invoke(Call("SSD1306_I2C", 0, <<g["WIDTH"].v, g["HEIGHT"].v, g["i2c"].v + 1>>, "", h)) >>

OpsL23WithRtc(g, h) ==
  << Load("DS1307"), Load("i2c"), Invoke(Call("DS1307", 0, <<g["i2c"].v>>, "", h)),
     Load("SSD1306_I2C"), Load("WIDTH"), Load("HEIGHT"), Load("i2c"),
     Invoke(Call("SSD1306_I2C", 0, <<g["WIDTH"].v, g["HEIGHT"].v, g["i2c"].v>>, "", h)) >>

OpsL23(g, h) ==
  << Load("SSD1306_I2C"), Load("WIDTH"), Load("HEIGHT"), Load("i2c"),
     Invoke(Call("SSD1306_I2C", 0, <<g["WIDTH"].v, g["HEIGHT"].v, g["i2c"].v>>, "", h)) >>

MakeOled ==
  pc = "l23" /\ \E h \in Handles, c \in Levels : Stmt(OpsL23(globals, h), "oled", "l25", Blank(c))

(* oled.fill(0) *)
OpsL25(g) ==
  << Load("oled"), Invoke(Call("fill", g["oled"].v, <<FILL_COLOUR>>, "", 0)) >>

OledFill == pc = "l25" /\ Stmt(OpsL25(globals), "", "l28", NoFrame)

(* oled.text("testhjgjhfgjgfhg",0,0) *)
OpsL28Shifted(g) ==
  << Load("oled"), Invoke(Call("text", g["oled"].v, <<TEXT_X, TEXT_Y + 8>>, TEXT, 0)) >>

OpsL28(g) ==
  << Load("oled"), Invoke(Call("text", g["oled"].v, <<TEXT_X, TEXT_Y>>, TEXT, 0)) >>

OledText == pc = "l28" /\ Stmt(OpsL28(globals), "", "l30", NoFrame)

(* oled.show() *)
OpsL30(g) ==
  << Load("oled"), Invoke(Call("show", g["oled"].v, <<>>, "", 0)) >>

OledShow == pc = "l30" /\ Stmt(OpsL30(globals), "", "l32", NoFrame)

(* radio = nrf24l01.NRF24L01(SPI(1), cs=Pin(15), ce=Pin(16),              *)
(*                           channel=7, payload_size=32)                  *)
(* The callee nrf24l01.NRF24L01 is evaluated before any argument.         *)
(* Transceiver args are recorded as <<spi handle, cs, ce, channel,        *)
(* payload_size>>.                                                        *)
OpsL32Redraw(g, hs, hr) ==
  << Load("oled"), Invoke(Call("fill", g["oled"].v, <<1>>, "", 0)),
     Load("oled"), Invoke(Call("show", g["oled"].v, <<>>, "", 0)),
     Load("nrf24l01"),
     Load("SPI"), Invoke(Call("SPI", 0, <<SPI_ID>>, "", hs)),
     Load("Pin"), PinCall(CS_PIN), Load("Pin"), PinCall(CE_PIN),
     Invoke(Call("NRF24L01", 0, <<hs, CS_PIN, CE_PIN, CHANNEL, PAYLOAD_SIZE>>, "", hr)) >>

OpsL32(g, hs, hr) ==
  << Load("nrf24l01"),
     Load("SPI"), Invoke(Call("SPI", 0, <<SPI_ID>>, "", hs)),
     Load("Pin"), PinCall(CS_PIN), Load("Pin"), PinCall(CE_PIN),
     Invoke(Call("NRF24L01", 0, <<hs, CS_PIN, CE_PIN, CHANNEL, PAYLOAD_SIZE>>, "", hr)) >>

MakeRadio ==
  pc = "l32" /\ \E hs \in Handles, hr \in Handles : Stmt(OpsL32(globals, hs, hr), "radio", "done", NoFrame)

Next ==
  \/ ImportMachine
  \/ ImportSsd1306
  \/ ImportNrf24
  \/ ImportUtime
  \/ ImportDs1307
  \/ AssignWidth
  \/ AssignHeight
  \/ MakeI2C
  \/ MakeOled
  \/ OledFill
  \/ OledText
  \/ OledShow
  \/ MakeRadio

Spec == Init /\ [][Next]_vars

(* ---- vocabulary of the properties ---- *)
Ended == pc \in {"done", "aborted"}
NoEnvFailure == error \notin {"ImportError", "DriverError"}
NotPin(c) == c.fn # "Pin"
Steps == SelectSeq(calls, NotPin)
Count(fn) == Cardinality({i \in 1..Len(calls) : calls[i].fn = fn})
Held(fn) == \E i \in 1..Len(calls) : calls[i].fn = fn /\ calls[i].ok
Before(f1, f2) ==
  \A j \in 1..Len(calls) : calls[j].fn = f2 =>
    \E i \in 1..(j - 1) : calls[i].fn = f1 /\ calls[i].ok
Shown == Held("show")
TextFrame == [bg |-> 0, txt |-> "testhjgjhfgjgfhg", x |-> 0, y |-> 0]
TxRxFns == {"send", "send_start", "send_done", "recv", "any",
            "start_listening", "stop_listening"}
RtcFns == {"DS1307", "datetime", "halt"}

(* C1: a run in which no import and no driver call fails leaves, in this   *)
(* order, exactly the steps I2C(0, scl=1, sda=0, freq=40000),              *)
(* SSD1306_I2C(128, 64, that bus), fill(0), text(literal, 0, 0), show(),   *)
(* SPI(1) and NRF24L01(that spi, cs=15, ce=16, channel=7,                  *)
(* payload_size=32) in the driver trace.                                   *)
C1Claim ==
  (Ended /\ NoEnvFailure) =>
    LET s == Steps IN
      /\ Len(s) = 7
      /\ s[1].fn = "I2C" /\ s[1].args = <<0, 1, 0, 40000>>
      /\ s[2].fn = "SSD1306_I2C" /\ s[2].args = <<128, 64, s[1].ret>>
      /\ s[3].fn = "fill" /\ s[3].args = <<0>>
      /\ s[4].fn = "text" /\ s[4].txt = "testhjgjhfgjgfhg" /\ s[4].args = <<0, 0>>
      /\ s[5].fn = "show"
      /\ s[6].fn = "SPI" /\ s[6].args = <<1>>
      /\ s[7].fn = "NRF24L01" /\ s[7].args = <<s[6].ret, 15, 16, 7, 32>>

(* C2: a failing step ends the run at that step: the call that raised is   *)
(* the last one in the trace, an error is pending exactly when the run is  *)
(* aborted, and an aborted run takes no further step (no handler, no       *)
(* retry).                                                                 *)
C2Theorem ==
  /\ [](/\ \A i \in 1..Len(calls) : ~calls[i].ok => (i = Len(calls) /\ pc = "aborted")
        /\ (error # "none") <=> (pc = "aborted"))
  /\ [][pc = "aborted" => UNCHANGED vars]_vars

C2Witness ==
  /\ pc = "aborted" /\ error = "DriverError"
  /\ Len(calls) > 0 /\ calls[Len(calls)].fn = "text" /\ ~calls[Len(calls)].ok

(* C4: a run in which no import and no driver call fails constructs a      *)
(* transceiver with cs=15, ce=16, channel=7, payload_size=32 on the SPI    *)
(* handle constructed just before it.                                      *)
C4Claim ==
  (Ended /\ NoEnvFailure) =>
    \E j \in 1..Len(calls) :
      /\ calls[j].fn = "NRF24L01" /\ calls[j].ok
      /\ SubSeq(calls[j].args, 2, 5) = <<15, 16, 7, 32>>
      /\ \E i \in 1..(j - 1) :
           calls[i].fn = "SPI" /\ calls[i].ok /\ calls[i].ret = calls[j].args[1]

(* C5: fill(0) returns before text is called and text returns before show  *)
(* is called; none of the three is called twice; every text call carries   *)
(* the literal at (0,0) and every fill call the colour 0; once show has    *)
(* returned each of the three has been called exactly once.                *)
C5Theorem ==
  /\ Before("fill", "text") /\ Before("text", "show")
  /\ Count("fill") <= 1 /\ Count("text") <= 1 /\ Count("show") <= 1
  /\ \A i \in 1..Len(calls) :
       /\ calls[i].fn = "fill" => calls[i].args = <<0>>
       /\ calls[i].fn = "text" => (calls[i].txt = "testhjgjhfgjgfhg" /\ calls[i].args = <<0, 0>>)
  /\ Shown => (Count("fill") = 1 /\ Count("text") = 1 /\ Count("show") = 1)

C5Witness == Shown /\ Ended /\ fb = TextFrame

(* C6: every I2C construction has id 0, scl=1, sda=0, freq=40000, and the  *)
(* display constructor is only called after an I2C construction returned.  *)
C6Theorem ==
  /\ \A i \in 1..Len(calls) : calls[i].fn = "I2C" => calls[i].args = <<0, 1, 0, 40000>>
  /\ Before("I2C", "SSD1306_I2C")

C6Witness == Count("SSD1306_I2C") = 1 /\ Held("I2C")

(* C7: the display constructor gets width 128, height 64 and the handle    *)
(* the one I2C construction returned, and WIDTH and HEIGHT keep their      *)
(* value once assigned.                                                    *)
C7Theorem ==
  /\ [](\A j \in 1..Len(calls) : calls[j].fn = "SSD1306_I2C" =>
          /\ calls[j].args[1] = 128 /\ calls[j].args[2] = 64
          /\ Count("I2C") = 1
          /\ \E i \in 1..(j - 1) :
               calls[i].fn = "I2C" /\ calls[i].ok /\ calls[i].ret = calls[j].args[3])
  /\ [][/\ globals["WIDTH"].k = "int" => globals'["WIDTH"] = globals["WIDTH"]
        /\ globals["HEIGHT"].k = "int" => globals'["HEIGHT"] = globals["HEIGHT"]]_vars

C7Witness == Held("SSD1306_I2C") /\ globals["WIDTH"] = IntVal(128) /\ pc = "l25"

(* C8: the driver trace never holds a transceiver transmit or receive      *)
(* call nor a construction or use of the real-time clock, and no global is *)
(* bound to a clock object.                                                *)
C8Theorem ==
  /\ \A i \in 1..Len(calls) : calls[i].fn \notin (TxRxFns \cup RtcFns)
  /\ globals["DS1307"].k # "obj"

C8Witness == pc = "aborted" /\ Shown /\ globals["DS1307"].k = "imported"

(* C9: each bus is constructed at most once and never released, and a run  *)
(* in which no import and no driver call fails ends holding both the       *)
(* two-wire and the four-wire bus.                                         *)
C9Claim ==
  /\ Count("I2C") <= 1 /\ Count("SPI") <= 1 /\ Count("deinit") = 0
  /\ (Ended /\ NoEnvFailure) => (Held("I2C") /\ Held("SPI"))

(* C10: once show has returned the panel shows the literal text at (0,0)   *)
(* on a cleared background, and no later step changes the panel or the     *)
(* frame buffer, the aborting transceiver statement included.              *)
C10Theorem ==
  /\ [](Shown => panel = TextFrame)
  /\ [][Shown => (panel' = panel /\ fb' = fb)]_vars

C10Witness == Shown /\ pc = "aborted" /\ error = "NameError" /\ panel = TextFrame
====
